---- MODULE Spec2Model ----
(***************************************************************************)
(* Model of config/niri/scripts/wallpaper.py: the wallpaper setter with    *)
(* its concurrent theme / derivation tasks, the artifact cache, and the    *)
(* automation loop with its PID file.                                      *)
(*                                                                         *)
(* A process is either a foreground CLI invocation (one `wallpaper.py      *)
(* <command>` run) or a spawned automation loop (`wallpaper.py _loop`).    *)
(* Every process has a main thread (pc) and up to three worker threads     *)
(* (task).  The cache directory is the shared state (files, genDir).       *)
(* os.kill(pid, SIGTERM) is modelled as ending the target at once: the     *)
(* script installs no handler, so the default disposition applies.         *)
(***************************************************************************)
EXTENDS Integers, Sequences, FiniteSets, TLC

\* ---------------------------------------------------------------- bounds

\* Number of automation loop processes that one run may spawn.
MaxPid == 2

\* ------------------------------------------------------- static universe

Img(dir, name) == [dir |-> dir, name |-> name]

\* The image files under WALLPAPER_DIR: two of them share a basename.
Images == {Img("anime", "x.png"), Img("space", "x.png"), Img("space", "y.png")}

\* category = None (no category argument given)
NoCategory == ""

\* Sub-directories of WALLPAPER_DIR that exist; "empty" holds no image.
Dirs == {"anime", "space", "empty"}

\* Category arguments a user may give ("nope" names no directory).
Categories == {NoCategory, "anime", "space", "empty", "nope"}

Effects == {"square", "blurred"}

Tasks == {"theme"} \cup Effects

Threads == {"main"} \cup Tasks

\* Foreground CLI invocations (numbered apart from the loops' identifiers).
Cli == {100, 101}

\* The terminal whose commands run one after the other.
Fg == {100}

Pids == 1..MaxPid

Procs == Cli \cup Pids

\* --------------------------------------------------------------- helpers

BasenameWithDir(path) == <<path.dir, path.name>>

\* Path.name: the final path component.
Basename(path) == path.name

CurrentFile == <<"current_wallpaper">>

PID_FILE == <<"automation_pid">>

GenericFileShared(effect) == <<"wallpaper.png">>

\* generic_file = CACHE_DIR / f"{effect}-wallpaper.png"
GenericFile(effect) == <<effect, "-wallpaper.png">>

\* cache_file = GENERATED_DIR / f"{effect}-{wallpaper_path.name}.png"
CacheFile(effect, path) == <<"generated", effect, Basename(path)>>

\* What `magick <path> <args of effect> <out>` writes to <out>.
Art(effect, path) == [effect |-> effect, src |-> path]

EmptyDir == [k \in {} |-> k]

Exists(fs, k) == k \in DOMAIN fs

Put(fs, k, v) == [x \in DOMAIN fs \cup {k} |-> IF x = k THEN v ELSE fs[x]]

Remove(fs, k) == [x \in DOMAIN fs \ {k} |-> fs[x]]

\* One externally visible effect of a thread.
Ev(op, arg, ok) == [op |-> op, arg |-> arg, ok |-> ok]

NoLog == [t \in Threads |-> <<>>]

NoTasks == [t \in Tasks |-> "none"]

NoArgs == [command |-> "", interval |-> 0, category |-> NoCategory]

NoImage == Img("", "")

VARIABLES
    files,      \* CACHE_DIR: path -> content, for the files that exist
    genDir,     \* whether CACHE_DIR/generated exists
    displays,   \* the running swaybg processes: the image each one shows
    pc,         \* main thread of each process
    args,       \* parsed command line of each process
    img,        \* wallpaper_path of the process's set / launch in progress
    setRes,     \* what the process's last set_wallpaper call returned, if any
    task,       \* worker threads of each process
    log,        \* per thread: external invocations and file writes so far
    oldPid,     \* manage_automation: old_pid
    newPid,     \* manage_automation: proc.pid
    nextPid,    \* next process identifier the system hands out
    tools,      \* the session's external tools: "ok", "fails" or "missing"
    snap,       \* harness: CACHE_DIR as it was when the CLI run began
    hist        \* harness: summaries of the calls completed so far

vars == <<files, genDir, displays, pc, args, img, setRes, task, log,
          oldPid, newPid, nextPid, tools, snap, hist>>

\* A loop process that has been spawned and has neither exited ("dead") nor
\* been ended by a signal ("killed").
Alive(pid) == pc[pid] \notin {"unborn", "dead", "killed"}

IsLoop(p) == p \in Pids

Logged(p, t, e) == [log EXCEPT ![p][t] = Append(@, e)]

TasksOver(p) == \A t \in Tasks : task[p][t] \in {"none", "done"}

\* The external tools and what each does in this session: swaybg is only
\* looked up and launched, a reload that is not installed fails like one that
\* returns non-zero.
Envs ==
    {env \in [{"swaybg", "wallust", "magick", "waybar", "mako"} ->
                {"ok", "fails", "missing"}] :
        /\ env["swaybg"] # "fails"
        /\ env["waybar"] # "missing"
        /\ env["mako"] # "missing"}

\* No process runs yet.
Fresh ==
    /\ genDir = FALSE
    /\ displays = <<>>
    /\ pc = [p \in Procs |-> IF p \in Cli THEN "idle" ELSE "unborn"]
    /\ args = [p \in Procs |-> NoArgs]
    /\ img = [p \in Procs |-> NoImage]
    /\ setRes = [p \in Procs |-> "none"]
    /\ task = [p \in Procs |-> NoTasks]
    /\ log = [p \in Procs |-> NoLog]
    /\ oldPid = [p \in Cli |-> 0]
    /\ newPid = [p \in Cli |-> 0]
    /\ nextPid = 1
    /\ snap = [p \in Cli |-> EmptyDir]
    /\ hist = <<>>

\* A cache directory left by an earlier session whose only trace is the
\* recorded wallpaper.
Recorded(path) == Put(EmptyDir, CurrentFile, path)

\* The sessions of the foreground commands: any tools, a fresh or a left-over
\* cache directory.
Init ==
    /\ Fresh
    /\ files \in {EmptyDir} \cup {Recorded(i) : i \in Images}
    /\ tools \in Envs

\* ------------------------------------------------- environment outcomes

\* Path.exists() / is_file() of an image path: the tree is user-managed, so a
\* file of the tree may have been removed by the time it is looked at; a path
\* outside the tree never exists.
MayExist(path) == IF path \in Images THEN BOOLEAN ELSE {FALSE}

\* shutil.which(tool): whether the tool is installed.
Which(tool) == tools[tool] # "missing"

\* run_cmd(cmd): TRUE on exit status 0, FALSE on CalledProcessError or
\* FileNotFoundError.
RunCmd(tool) == tools[tool] = "ok"

\* get_current_wallpaper(): the recorded path, or the default one.
DefaultWallpaper == Img("anime", "a_tree_trunk_with_a_branch.png")

GetCurrentWallpaper ==
    IF Exists(files, CurrentFile) THEN files[CurrentFile] ELSE DefaultWallpaper

\* ------------------------------------------------------- update_themes

AfterWallustUnchecked(avail, ok) == IF avail THEN "waybar" ELSE "done"

\* wallust: `which` check, then `wallust run <path>`; reloads only follow a
\* successful run.
AfterWallust(avail, ok) == IF avail /\ ok THEN "waybar" ELSE "done"

\* The reload of waybar is followed by the reload of mako whatever it returned.
AfterWaybar(ok) == "mako"

Wallust(p) ==
    /\ task[p]["theme"] = "wallust"
    /\ LET avail == Which("wallust")
           ok == RunCmd("wallust") IN
        /\ task' = [task EXCEPT ![p]["theme"] = AfterWallust(avail, ok)]
        /\ log' = IF avail
                  THEN Logged(p, "theme", Ev("run", <<"wallust">>, ok))
                  ELSE Logged(p, "theme", Ev("which", <<"wallust">>, FALSE))
    /\ UNCHANGED <<files, genDir, displays, pc, args, img, setRes,
                   oldPid, newPid, nextPid, tools, snap, hist>>

Waybar(p) ==
    /\ task[p]["theme"] = "waybar"
    /\ LET ok == RunCmd("waybar") IN
        /\ task' = [task EXCEPT ![p]["theme"] = AfterWaybar(ok)]
        /\ log' = Logged(p, "theme", Ev("run", <<"waybar">>, ok))
    /\ UNCHANGED <<files, genDir, displays, pc, args, img, setRes,
                   oldPid, newPid, nextPid, tools, snap, hist>>

Mako(p) ==
    /\ task[p]["theme"] = "mako"
    /\ LET ok == RunCmd("mako") IN
        /\ task' = [task EXCEPT ![p]["theme"] = "done"]
        /\ log' = Logged(p, "theme", Ev("run", <<"mako">>, ok))
    /\ UNCHANGED <<files, genDir, displays, pc, args, img, setRes,
                   oldPid, newPid, nextPid, tools, snap, hist>>

\* ------------------------------------------------- transform_wallpaper

AfterCheckAlwaysNew(fs, effect, path) == "magick"

\* if cache_file.exists(): copy it to generic_file, else generate.
AfterCheck(fs, effect, path) ==
    IF Exists(fs, CacheFile(effect, path)) THEN "copyhit" ELSE "magick"

CheckCache(p, e) ==
    /\ task[p][e] = "check"
    /\ task' = [task EXCEPT ![p][e] = AfterCheck(files, e, img[p])]
    /\ UNCHANGED <<files, genDir, displays, pc, args, img, setRes, log,
                   oldPid, newPid, nextPid, tools, snap, hist>>

\* shutil.copy(cache_file, generic_file); a copy whose source has vanished
\* raises in the thread, which ends it.
CopyHit(p, e) ==
    /\ task[p][e] = "copyhit"
    /\ task' = [task EXCEPT ![p][e] = "done"]
    /\ IF Exists(files, CacheFile(e, img[p]))
       THEN /\ files' = Put(files, GenericFile(e), files[CacheFile(e, img[p])])
            /\ log' = Logged(p, e, Ev("write", GenericFile(e), TRUE))
       ELSE /\ files' = files
            /\ log' = Logged(p, e, Ev("raise", CacheFile(e, img[p]), FALSE))
    /\ UNCHANGED <<genDir, displays, pc, args, img, setRes,
                   oldPid, newPid, nextPid, tools, snap, hist>>

\* `which magick`, then `magick <path> <args> <generic_file>`.
Magick(p, e) ==
    /\ task[p][e] = "magick"
    /\ LET avail == Which("magick")
           ok == RunCmd("magick") IN
        /\ IF ~avail
           THEN /\ task' = [task EXCEPT ![p][e] = "done"]
                /\ files' = files
                /\ log' = Logged(p, e, Ev("which", <<"magick">>, FALSE))
           ELSE /\ task' = [task EXCEPT ![p][e] = IF ok THEN "store" ELSE "done"]
                /\ files' = IF ok THEN Put(files, GenericFile(e), Art(e, img[p]))
                                  ELSE files
                /\ log' = [log EXCEPT ![p][e] =
                             @ \o <<Ev("run", <<"magick">>, ok)>>
                               \o (IF ok THEN <<Ev("write", GenericFile(e), TRUE)>>
                                         ELSE <<>>)]
    /\ UNCHANGED <<genDir, displays, pc, args, img, setRes,
                   oldPid, newPid, nextPid, tools, snap, hist>>

StoredNowhere(fs, effect, path) == fs

\* The directory once generic_file has been copied to cache_file.
Stored(fs, effect, path) ==
    Put(fs, CacheFile(effect, path), fs[GenericFile(effect)])

\* shutil.copy(generic_file, cache_file): raises when generic_file or the
\* directory of cache_file is gone.
Store(p, e) ==
    /\ task[p][e] = "store"
    /\ task' = [task EXCEPT ![p][e] = "done"]
    /\ IF Exists(files, GenericFile(e)) /\ genDir
       THEN /\ files' = Stored(files, e, img[p])
            /\ log' = Logged(p, e, Ev("write", CacheFile(e, img[p]), TRUE))
       ELSE /\ files' = files
            /\ log' = Logged(p, e, Ev("raise", CacheFile(e, img[p]), FALSE))
    /\ UNCHANGED <<genDir, displays, pc, args, img, setRes,
                   oldPid, newPid, nextPid, tools, snap, hist>>

\* ------------------------------------------------------- launch_swaybg

LaunchFailedIgnored(p) ==
    /\ pc' = [pc EXCEPT ![p] = IF args[p].command = "restore" THEN "exit"
                                 ELSE "write_current"]
    /\ setRes' = setRes

\* Where the caller of launch_swaybg continues: `restore` calls it from
\* main, every other caller is set_wallpaper.
LaunchFailed(p) ==
    IF args[p].command = "restore"
    THEN /\ pc' = [pc EXCEPT ![p] = "exit"]
         /\ setRes' = setRes
    ELSE /\ pc' = [pc EXCEPT ![p] = "set_return"]
         /\ setRes' = [setRes EXCEPT ![p] = "False"]

PkillSkipped(ds) == ds

\* subprocess.run(["pkill", "swaybg"]): the running instances are ended.
Pkilled(ds) == <<>>

\* shutil.which("swaybg"); then pkill swaybg.
LaunchSwaybg(p) ==
    /\ pc[p] = "launch_swaybg"
    /\ LET avail == Which("swaybg") IN
        IF ~avail
        THEN /\ LaunchFailed(p)
             /\ displays' = displays
             /\ log' = Logged(p, "main", Ev("which", <<"swaybg">>, FALSE))
        ELSE /\ pc' = [pc EXCEPT ![p] = "popen"]
             /\ setRes' = setRes
             /\ displays' = Pkilled(displays)
             /\ log' = Logged(p, "main", Ev("run", <<"pkill", "swaybg">>, TRUE))
    /\ UNCHANGED <<files, genDir, args, img, task, oldPid, newPid, nextPid, tools, snap, hist>>

AfterLaunchAlwaysRecords(p) == "write_current"

\* Where the caller of a launch_swaybg that returned True continues: `restore`
\* is over, set_wallpaper goes on to record the wallpaper.
AfterLaunch(p) ==
    IF args[p].command = "restore" THEN "exit" ELSE "write_current"

\* subprocess.Popen(["swaybg", "-m", "fill", "-i", path]); return True.
Popen(p) ==
    /\ pc[p] = "popen"
    /\ displays' = Append(displays, img[p])
    /\ log' = Logged(p, "main", Ev("run", <<"swaybg">>, TRUE))
    /\ pc' = [pc EXCEPT ![p] = AfterLaunch(p)]
    /\ UNCHANGED <<files, genDir, args, img, setRes, task,
                   oldPid, newPid, nextPid, tools, snap, hist>>

\* ------------------------------------------------------- set_wallpaper

StartedTasks == [t \in Tasks |-> IF t = "theme" THEN "wallust" ELSE "check"]

TasksAtEntryEager(p, exists) == [task EXCEPT ![p] = StartedTasks]

\* The threads are created and started only past the existence check.
TasksAtEntry(p, exists) ==
    IF exists THEN [task EXCEPT ![p] = StartedTasks] ELSE task

JoinResultStrict(p) ==
    IF \A t \in Tasks : \A i \in 1..Len(log[p][t]) : log[p][t][i].ok
    THEN "True" ELSE "False"

\* The value returned past the joins: True, whatever the threads did.
JoinResult(p) == "True"

\* if not wallpaper_path.exists(): return False; else start the three threads.
SetWallpaper(p) ==
    /\ pc[p] = "set_wallpaper"
    /\ \E exists \in MayExist(img[p]) :
        IF ~exists
        THEN /\ pc' = [pc EXCEPT ![p] = "set_return"]
             /\ setRes' = [setRes EXCEPT ![p] = "False"]
             /\ task' = TasksAtEntry(p, exists)
             /\ log' = Logged(p, "main", Ev("exists", <<"wallpaper_path">>, FALSE))
        ELSE /\ pc' = [pc EXCEPT ![p] = "launch_swaybg"]
             /\ setRes' = setRes
             /\ task' = TasksAtEntry(p, exists)
             /\ log' = log
    /\ UNCHANGED <<files, genDir, displays, args, img, oldPid, newPid, nextPid, tools, snap, hist>>

WrittenNothing(fs, path) == fs

\* The directory once the path has been written to current_wallpaper.
Written(fs, path) == Put(fs, CurrentFile, path)

\* (CACHE_DIR / "current_wallpaper").write_text(str(wallpaper_path))
WriteCurrent(p) ==
    /\ pc[p] = "write_current"
    /\ files' = Written(files, img[p])
    /\ log' = Logged(p, "main", Ev("write", CurrentFile, TRUE))
    /\ pc' = [pc EXCEPT ![p] = "join"]
    /\ UNCHANGED <<genDir, displays, args, img, setRes, task,
                   oldPid, newPid, nextPid, tools, snap, hist>>

\* for t in threads: t.join(); return True
Join(p) ==
    /\ pc[p] = "join"
    /\ \A t \in Tasks : task[p][t] = "done"
    /\ pc' = [pc EXCEPT ![p] = "set_return"]
    /\ setRes' = [setRes EXCEPT ![p] = JoinResult(p)]
    /\ UNCHANGED <<files, genDir, displays, args, img, task, log,
                   oldPid, newPid, nextPid, tools, snap, hist>>

\* The caller takes the returned value: main and shuffle_wallpaper's callers in
\* a CLI run go on to exit, automation_loop sleeps or gives up.
SetReturn(p) ==
    /\ pc[p] = "set_return"
    /\ pc' = [pc EXCEPT ![p] =
                IF args[p].command = "_loop"
                THEN (IF setRes[p] = "True" THEN "sleep" ELSE "loop_fail")
                ELSE "exit"]
    /\ UNCHANGED <<files, genDir, displays, args, img, setRes, task, log,
                   oldPid, newPid, nextPid, tools, snap, hist>>

\* ---------------------------------------------------- shuffle_wallpaper

\* target_dir.exists()
DirExists(category) == category = NoCategory \/ category \in Dirs

\* The image files found by target_dir.rglob("*").
ImagesIn(category) ==
    IF category = NoCategory THEN Images
    ELSE {i \in Images : i.dir = category}

\* A shuffle that selected nothing returns False to its caller.
ShuffleFailed(p) ==
    pc' = [pc EXCEPT ![p] = IF args[p].command = "_loop" THEN "loop_fail"
                            ELSE "exit"]

ShuffleWallpaper(p) ==
    /\ pc[p] = "shuffle_wallpaper"
    /\ LET cat == args[p].category IN
        IF ~DirExists(cat) \/ ImagesIn(cat) = {}
        THEN /\ ShuffleFailed(p)
             /\ img' = img
        ELSE \E chosen \in ImagesIn(cat) :
                /\ img' = [img EXCEPT ![p] = chosen]
                /\ pc' = [pc EXCEPT ![p] = "set_wallpaper"]
    /\ setRes' = [setRes EXCEPT ![p] = "none"]
    /\ log' = [log EXCEPT ![p] = NoLog]
    /\ task' = [task EXCEPT ![p] = NoTasks]
    /\ UNCHANGED <<files, genDir, displays, args, oldPid, newPid, nextPid, tools, snap, hist>>

\* --------------------------------------------------- manage_automation

\* os.kill(pid, SIGTERM): the process and its threads end.
Killed(f, pid, dflt) == [f EXCEPT ![pid] = dflt]

\* if PID_FILE.exists():
AutoCheck(p) ==
    /\ pc[p] = "manage_automation"
    /\ pc' = [pc EXCEPT ![p] = IF Exists(files, PID_FILE) THEN "auto_read"
                                 ELSE "auto_spawn"]
    /\ UNCHANGED <<files, genDir, displays, args, img, setRes, task, log,
                   oldPid, newPid, nextPid, tools, snap, hist>>

\* old_pid = int(PID_FILE.read_text().strip()); a file removed since the
\* check raises FileNotFoundError, which nothing catches.
AutoRead(p) ==
    /\ pc[p] = "auto_read"
    /\ IF Exists(files, PID_FILE)
       THEN /\ oldPid' = [oldPid EXCEPT ![p] = files[PID_FILE]]
            /\ pc' = [pc EXCEPT ![p] = "auto_kill"]
            /\ log' = log
       ELSE /\ oldPid' = oldPid
            /\ pc' = [pc EXCEPT ![p] = "exit"]
            /\ log' = Logged(p, "main", Ev("raise", PID_FILE, FALSE))
    /\ UNCHANGED <<files, genDir, displays, args, img, setRes, task,
                   newPid, nextPid, tools, snap, hist>>

\* os.kill(old_pid, signal.SIGTERM); ProcessLookupError is caught.
AutoKill(p) ==
    /\ pc[p] = "auto_kill"
    /\ LET old == oldPid[p] IN
        IF Alive(old)
        THEN /\ pc' = [Killed(pc, old, "killed") EXCEPT ![p] = "auto_unlink"]
             /\ task' = Killed(task, old, NoTasks)
             /\ args' = Killed(args, old, NoArgs)
             /\ img' = Killed(img, old, NoImage)
             /\ setRes' = Killed(setRes, old, "none")
             /\ log' = [Killed(log, old, NoLog) EXCEPT
                          ![p]["main"] = Append(@, Ev("kill", <<"SIGTERM">>, TRUE))]
        ELSE /\ pc' = [pc EXCEPT ![p] = "auto_unlink"]
             /\ UNCHANGED <<task, args, img, setRes>>
             /\ log' = Logged(p, "main", Ev("kill", <<"SIGTERM">>, FALSE))
    /\ UNCHANGED <<files, genDir, displays, oldPid, newPid, nextPid, tools, snap, hist>>

\* PID_FILE.unlink(missing_ok=True)
AutoUnlink(p) ==
    /\ pc[p] = "auto_unlink"
    /\ files' = Remove(files, PID_FILE)
    /\ pc' = [pc EXCEPT ![p] = "auto_spawn"]
    /\ UNCHANGED <<genDir, displays, args, img, setRes, task, log,
                   oldPid, newPid, nextPid, tools, snap, hist>>

\* if interval > 0: proc = subprocess.Popen([... "_loop", interval, category])
\* else: notify("Wallpaper automation stopped")
AutoSpawn(p) ==
    /\ pc[p] = "auto_spawn"
    /\ IF args[p].interval > 0
       THEN /\ nextPid <= MaxPid
            /\ pc' = [pc EXCEPT ![p] = "auto_write", ![nextPid] = "main"]
            /\ args' = [args EXCEPT ![nextPid] =
                          [command |-> "_loop", interval |-> args[p].interval,
                           category |-> args[p].category]]
            /\ newPid' = [newPid EXCEPT ![p] = nextPid]
            /\ nextPid' = nextPid + 1
            /\ log' = Logged(p, "main", Ev("run", <<"_loop">>, TRUE))
       ELSE /\ pc' = [pc EXCEPT ![p] = "exit"]
            /\ UNCHANGED <<args, newPid, nextPid, log>>
    /\ UNCHANGED <<files, genDir, displays, img, setRes, task, oldPid, tools, snap, hist>>

\* PID_FILE.write_text(str(proc.pid))
AutoWrite(p) ==
    /\ pc[p] = "auto_write"
    /\ files' = Put(files, PID_FILE, newPid[p])
    /\ pc' = [pc EXCEPT ![p] = "exit"]
    /\ UNCHANGED <<genDir, displays, args, img, setRes, task, log,
                   oldPid, newPid, nextPid, tools, snap, hist>>

\* ----------------------------------------------------- automation_loop

\* The spawned process enters main(), which creates the directories and
\* dispatches `_loop` to automation_loop.
LoopMain(pid) ==
    /\ pc[pid] = "main"
    /\ genDir' = TRUE
    /\ pc' = [pc EXCEPT ![pid] = "shuffle_wallpaper"]
    /\ UNCHANGED <<files, displays, args, img, setRes, task, log,
                   oldPid, newPid, nextPid, tools, snap, hist>>

\* notify(...); PID_FILE.unlink(missing_ok=True); sys.exit(1)
LoopFail(pid) ==
    /\ pc[pid] = "loop_fail"
    /\ files' = Remove(files, PID_FILE)
    /\ pc' = [pc EXCEPT ![pid] = "exit"]
    /\ UNCHANGED <<genDir, displays, args, img, setRes, task, log,
                   oldPid, newPid, nextPid, tools, snap, hist>>

\* time.sleep(interval), then the next iteration.
Sleep(pid) ==
    /\ pc[pid] = "sleep"
    /\ pc' = [pc EXCEPT ![pid] = "shuffle_wallpaper"]
    /\ UNCHANGED <<files, genDir, displays, args, img, setRes, task, log,
                   oldPid, newPid, nextPid, tools, snap, hist>>

\* ---------------------------------------------------------------- main

\* Interpreter exit: it waits for the threads that are still running (they are
\* not daemon threads), then the process is gone.
ExitProcess(p) ==
    /\ pc[p] = "exit"
    /\ TasksOver(p)
    /\ pc' = [pc EXCEPT ![p] = IF IsLoop(p) THEN "dead" ELSE "idle"]
    /\ args' = [args EXCEPT ![p] = NoArgs]
    /\ img' = [img EXCEPT ![p] = NoImage]
    /\ setRes' = [setRes EXCEPT ![p] = "none"]
    /\ task' = [task EXCEPT ![p] = NoTasks]
    /\ log' = [log EXCEPT ![p] = NoLog]
    /\ oldPid' = IF IsLoop(p) THEN oldPid ELSE [oldPid EXCEPT ![p] = 0]
    /\ newPid' = IF IsLoop(p) THEN newPid ELSE [newPid EXCEPT ![p] = 0]
    /\ UNCHANGED <<files, genDir, displays, nextPid, tools>>
    /\ snap' = IF IsLoop(p) THEN snap ELSE [snap EXCEPT ![p] = EmptyDir]

\* A CLI run starts: main() creates CACHE_DIR and GENERATED_DIR, then
\* dispatches on the command line.
Dispatch(c, command, interval, category, path, first) ==
    /\ pc[c] = "idle"
    /\ args' = [args EXCEPT ![c] = [command |-> command, interval |-> interval,
                                    category |-> category]]
    /\ img' = [img EXCEPT ![c] = path]
    /\ pc' = [pc EXCEPT ![c] = first]
    /\ UNCHANGED <<displays, setRes, log, oldPid, newPid, nextPid, tools, hist>>

\* wallpaper.py <file>: the argument is an existing file.
MainSet(c) ==
    \E path \in Images :
        /\ Dispatch(c, "set", 0, NoCategory, path, "set_wallpaper")
        /\ genDir' = TRUE
        /\ snap' = [snap EXCEPT ![c] = files]
        /\ UNCHANGED <<files, task>>

\* wallpaper.py shuffle [category], for the given set of arguments
MainShuffle(c, categories) ==
    \E category \in categories :
        /\ Dispatch(c, "shuffle", 0, category, NoImage, "shuffle_wallpaper")
        /\ genDir' = TRUE
        /\ snap' = [snap EXCEPT ![c] = files]
        /\ UNCHANGED <<files, task>>

\* wallpaper.py auto <interval> [category]
StartAuto(c, interval, category) ==
    /\ interval > 0 => nextPid <= MaxPid
    /\ Dispatch(c, "auto", interval, category, NoImage, "manage_automation")
    /\ genDir' = TRUE
    /\ UNCHANGED <<files, task>>

\* wallpaper.py auto <interval> [category], for the given sets of arguments
MainAuto(c, intervals, categories) ==
    \E interval \in intervals, category \in categories :
        /\ StartAuto(c, interval, category)
        /\ snap' = snap

\* wallpaper.py color: update_themes(get_current_wallpaper()) in the main
\* thread, then exit.
MainColor(c) ==
    /\ Dispatch(c, "color", 0, NoCategory, GetCurrentWallpaper, "exit")
    /\ task' = [task EXCEPT ![c]["theme"] = "wallust"]
    /\ genDir' = TRUE
    /\ snap' = [snap EXCEPT ![c] = files]
    /\ UNCHANGED files

\* wallpaper.py restore: launch_swaybg(get_current_wallpaper())
MainRestore(c) ==
    /\ Dispatch(c, "restore", 0, NoCategory, GetCurrentWallpaper, "launch_swaybg")
    /\ genDir' = TRUE
    /\ snap' = [snap EXCEPT ![c] = files]
    /\ UNCHANGED <<files, task>>

\* wallpaper.py clear-cache: shutil.rmtree(CACHE_DIR); CACHE_DIR.mkdir()
MainClearCache(c) ==
    /\ Dispatch(c, "clear-cache", 0, NoCategory, NoImage, "exit")
    /\ files' = EmptyDir
    /\ genDir' = FALSE
    /\ snap' = snap
    /\ UNCHANGED task

\* ------------------------------------------------------ specifications

\* Steps of the worker threads of process p.
TaskStep(p) ==
    \/ Wallust(p)
    \/ Waybar(p)
    \/ Mako(p)
    \/ \E e \in Effects : CheckCache(p, e)
    \/ \E e \in Effects : CopyHit(p, e)
    \/ \E e \in Effects : Magick(p, e)
    \/ \E e \in Effects : Store(p, e)

\* The steps of the worker threads that a session without wallust and magick
\* can take: the others are never enabled there.
BareTaskStep(p) ==
    \/ Wallust(p)
    \/ \E e \in Effects : CheckCache(p, e)
    \/ \E e \in Effects : Magick(p, e)

\* Steps of set_wallpaper / launch_swaybg / shuffle_wallpaper in process p.
SetStep(p) ==
    \/ ShuffleWallpaper(p)
    \/ SetWallpaper(p)
    \/ LaunchSwaybg(p)
    \/ Popen(p)
    \/ WriteCurrent(p)
    \/ Join(p)
    \/ SetReturn(p)

AutoStep(c) ==
    \/ AutoCheck(c)
    \/ AutoRead(c)
    \/ AutoKill(c)
    \/ AutoUnlink(c)
    \/ AutoSpawn(c)
    \/ AutoWrite(c)

LoopStep(pid) ==
    \/ LoopMain(pid)
    \/ LoopFail(pid)
    \/ Sleep(pid)

Exit(p) == ExitProcess(p) /\ UNCHANGED hist

\* Foreground commands that do not touch the automation, run one after the
\* other, each as a CLI process of its own.
Next ==
    \E c \in Fg :
        \/ MainSet(c)
        \/ MainShuffle(c, {"anime", "empty", "nope"})
        \/ MainColor(c)
        \/ MainRestore(c)
        \/ MainClearCache(c)
        \/ SetStep(c)
        \/ TaskStep(c)
        \/ Exit(c)

Spec == Init /\ [][Next]_vars

\* The foreground commands that act on the automation's record, run one after
\* the other, with the automation loops they spawn running concurrently.
NextAuto ==
    \/ \E c \in Fg :
        \/ MainAuto(c, {0, 5}, {"anime", "nope"})
        \/ MainClearCache(c)
        \/ AutoStep(c)
    \/ \E c \in Fg : Exit(c)
    \/ \E pid \in Pids :
        \/ LoopStep(pid)
        \/ SetStep(pid)
        \/ BareTaskStep(pid)
        \/ Exit(pid)

\* Sessions for the automation: a bare desktop where neither the palette nor
\* the transformation tool is installed, with and without the display tool.
EnvsAuto ==
    {env \in Envs : /\ env["wallust"] = "missing"
                     /\ env["magick"] = "missing"
                     /\ env["waybar"] = "ok"
                     /\ env["mako"] = "ok"}

InitAuto ==
    /\ Fresh
    /\ files = EmptyDir
    /\ tools \in EnvsAuto

SpecAuto == InitAuto /\ [][NextAuto]_vars

\* ---------------------------------------------- two starts in a row

\* The CLI run is over; a run of `auto` is noted with what it asked for and
\* the process it spawned (0 when it spawned none).
ExitRecorded(c) ==
    /\ ExitProcess(c)
    /\ hist' = IF args[c].command = "auto"
               THEN Append(hist, [pid |-> newPid[c],
                                  interval |-> args[c].interval,
                                  category |-> args[c].category])
               ELSE hist

\* `auto 5|10 [category]` twice, the second run beginning once the first is
\* over, with the loops they spawn running concurrently.
NextStart2 ==
    \/ \E c \in Fg :
        \/ Len(hist) < 2 /\ MainAuto(c, {5, 10}, {"anime", "nope"})
        \/ AutoStep(c)
        \/ ExitRecorded(c)
    \/ \E pid \in Pids :
        \/ LoopStep(pid)
        \/ SetStep(pid)
        \/ BareTaskStep(pid)
        \/ Exit(pid)

SpecStart2 == InitAuto /\ [][NextStart2]_vars

\* ------------------------------------ starts and stops, record noted

\* Marks, in a noted directory, a record whose process was gone already.
Stale == <<"automation_pid", "stale">>

\* What a run finds when it begins: CACHE_DIR, and whether the process on
\* record is gone.
Found(fs) ==
    IF Exists(fs, PID_FILE) /\ ~Alive(fs[PID_FILE])
    THEN Put(fs, Stale, fs[PID_FILE])
    ELSE fs

\* wallpaper.py auto <interval> [category]; what the run found when it began
\* is noted.
MainAutoNoted(c, intervals, categories) ==
    \E interval \in intervals, category \in categories :
        /\ StartAuto(c, interval, category)
        /\ snap' = [snap EXCEPT ![c] = Found(files)]

\* Starts, stops and clear-cache run one after the other, with the automation
\* loops running concurrently.
NextRec ==
    \/ \E c \in Fg :
        \/ MainAutoNoted(c, {0, 5}, {"anime", "nope"})
        \/ MainClearCache(c)
        \/ AutoStep(c)
        \/ Exit(c)
    \/ \E pid \in Pids :
        \/ LoopStep(pid)
        \/ SetStep(pid)
        \/ BareTaskStep(pid)
        \/ Exit(pid)

SpecRec == InitAuto /\ [][NextRec]_vars

\* ------------------------------------- two derivations in a row

\* The cache files a directory may hold when a derivation is called.
DeriveKeys ==
    {CacheFile(e, i) : e \in Effects, i \in Images}
        \cup {GenericFile(e) : e \in Effects}

\* What such a file holds: a variant of an image of its basename, the
\* generic-latest file the variant of the image set last.
DeriveContent(k) ==
    IF k[1] = "generated"
    THEN Art(k[2], Img("space", k[3]))
    ELSE Art(k[1], Img("anime", "x.png"))

DeriveDirs == {[k \in K |-> DeriveContent(k)] : K \in SUBSET DeriveKeys}

\* A caller about to call transform_wallpaper, in any state of the cache
\* directory (CACHE_DIR/generated is missing after a clear-cache) and with the
\* transformation tool in any condition.
InitDerive ==
    /\ genDir \in BOOLEAN
    /\ files \in {d \in DeriveDirs :
                    genDir \/ \A k \in DOMAIN d : k[1] # "generated"}
    /\ tools \in {env \in Envs :
                    \A t \in DOMAIN env : t # "magick" => env[t] = "ok"}
    /\ pc = [p \in Procs |-> IF p \in Fg THEN "derive"
                              ELSE IF p \in Cli THEN "idle" ELSE "unborn"]
    /\ displays = <<>>
    /\ args = [p \in Procs |-> NoArgs]
    /\ img = [p \in Procs |-> NoImage]
    /\ setRes = [p \in Procs |-> "none"]
    /\ task = [p \in Procs |-> NoTasks]
    /\ log = [p \in Procs |-> NoLog]
    /\ oldPid = [p \in Cli |-> 0]
    /\ newPid = [p \in Cli |-> 0]
    /\ nextPid = 1
    /\ snap = [p \in Cli |-> EmptyDir]
    /\ hist = <<>>

\* transform_wallpaper(path, effect, ...) is called.
CallTransform(c) ==
    /\ pc[c] = "derive"
    /\ Len(hist) < 2
    /\ \E e \in Effects, path \in Images :
        /\ img' = [img EXCEPT ![c] = path]
        /\ task' = [task EXCEPT ![c][e] = "check"]
        /\ hist' = Append(hist, [effect |-> e, image |-> path, log |-> <<>>,
                                 done |-> FALSE])
    /\ pc' = [pc EXCEPT ![c] = "deriving"]
    /\ log' = [log EXCEPT ![c] = NoLog]
    /\ UNCHANGED <<files, genDir, displays, args, setRes,
                   oldPid, newPid, nextPid, tools, snap>>

\* The call returns; what it did is noted.
TransformReturn(c) ==
    /\ pc[c] = "deriving"
    /\ LET e == hist[Len(hist)].effect IN
        /\ task[c][e] = "done"
        /\ hist' = [hist EXCEPT ![Len(hist)].log = log[c][e],
                                ![Len(hist)].done = TRUE]
        /\ task' = [task EXCEPT ![c][e] = "none"]
    /\ pc' = [pc EXCEPT ![c] = "derive"]
    /\ UNCHANGED <<files, genDir, displays, args, img, setRes, log,
                   oldPid, newPid, nextPid, tools, snap>>

\* Two calls of the derivation runner, one after the other, nothing else
\* running.
NextDerive ==
    \E c \in Fg :
        \/ CallTransform(c)
        \/ TransformReturn(c)
        \/ \E e \in Effects : CheckCache(c, e)
        \/ \E e \in Effects : CopyHit(c, e)
        \/ \E e \in Effects : Magick(c, e)
        \/ \E e \in Effects : Store(c, e)

SpecDerive == InitDerive /\ [][NextDerive]_vars

\* ------------------------------------------------------------- claims

Range(seq) == {seq[i] : i \in 1..Len(seq)}

\* Thread t of process p has done ev.
Did(p, t, ev) == ev \in Range(log[p][t])

\* The capability has been invoked by thread t of p: looked up or run.
Invoked(p, t, tool) ==
    \E ev \in Range(log[p][t]) : ev.op \in {"which", "run"} /\ ev.arg = <<tool>>

\* CurrentWallpaperState as a directory holds it: absent, or one path.
Cur(fs) == IF Exists(fs, CurrentFile) THEN <<fs[CurrentFile]>> ELSE <<>>

\* The set call of p found no file at its path.
NotFound(p) == Did(p, "main", Ev("exists", <<"wallpaper_path">>, FALSE))

\* The display capability invocation of p's call failed: no display tool.
DisplayFailed(p) == Did(p, "main", Ev("which", <<"swaybg">>, FALSE))

\* The display capability invocation of p's call succeeded: swaybg launched.
DisplayDone(p) == Did(p, "main", Ev("run", <<"swaybg">>, TRUE))

\* p's call of set_wallpaper has just returned.
Returned(p) == pc[p] = "set_return"

\* C1: a set call whose display capability invocation fails returns failure
\* and leaves CurrentWallpaperState as it was before the call.
C1_DisplayFailureKeepsCurrent ==
    \A c \in Cli :
        (Returned(c) /\ DisplayFailed(c)) =>
            /\ setRes[c] = "False"
            /\ Cur(files) = Cur(snap[c])

\* C1's case: the display fails while an earlier wallpaper is on record.
C1_Witness ==
    \E c \in Cli :
        /\ Returned(c) /\ DisplayFailed(c)
        /\ Exists(files, CurrentFile)
        /\ files[CurrentFile] # img[c]

\* C2: a set call on a path that is no existing file returns failure, invokes
\* no external capability, starts no task and leaves the recorded wallpaper and
\* every cache file as they were.
C2_MissingImageNoEffects ==
    \A c \in Cli :
        (Returned(c) /\ NotFound(c)) =>
            /\ setRes[c] = "False"
            /\ \A t \in Threads : \A ev \in Range(log[c][t]) :
                   ev.op \notin {"which", "run", "write", "kill"}
            /\ \A t \in Tasks : task[c][t] = "none"
            /\ files = snap[c]

\* C2's case: the path has vanished while the cache holds files.
C2_Witness ==
    \E c \in Cli :
        /\ Returned(c) /\ NotFound(c)
        /\ \E e \in Effects : Exists(files, CacheFile(e, img[c]))
        /\ Exists(files, CurrentFile)

\* C6: when set returns, with success or with failure, every task it started
\* has completed.
C6_TasksJoinedAtReturn ==
    \A p \in Procs : Returned(p) => TasksOver(p)

\* C7: set succeeds if and only if the image exists and the display capability
\* invocation succeeded, whatever the palette, the reloads and the derivations
\* did.
C7_ResultIsDisplayResult ==
    \A p \in Procs :
        Returned(p) =>
            /\ setRes[p] \in {"True", "False"}
            /\ setRes[p] = "True" <=> (~NotFound(p) /\ DisplayDone(p))

\* C7's case: set succeeds although the palette and both derivations failed.
C7_Witness ==
    \E p \in Procs :
        /\ Returned(p) /\ setRes[p] = "True"
        /\ Did(p, "theme", Ev("run", <<"wallust">>, FALSE))
        /\ \A e \in Effects : Did(p, e, Ev("run", <<"magick">>, FALSE))

\* p's set call is over, tasks included, and both effects were cached for the
\* image's basename when it began.
CachedCallOver(p) ==
    /\ pc[p] \in {"set_return", "exit"}
    /\ args[p].command \in {"set", "shuffle"}
    /\ setRes[p] \in {"True", "False"}
    /\ ~NotFound(p)
    /\ TasksOver(p)
    /\ \A e \in Effects : Exists(snap[p], CacheFile(e, img[p]))

\* C9: with both effects cached under the image's basename, set invokes the
\* transformation capability for neither, copies each cached artifact to the
\* effect's generic-latest file, and still invokes display and palette.
C9_CachedVariantsSkipTransform ==
    \A c \in Cli :
        CachedCallOver(c) =>
            /\ \A e \in Effects :
                /\ ~Invoked(c, e, "magick")
                /\ Exists(files, GenericFile(e))
                /\ files[GenericFile(e)] = snap[c][CacheFile(e, img[c])]
            /\ Invoked(c, "main", "swaybg")
            /\ Invoked(c, "theme", "wallust")

\* C9's case: a set of an image whose variants were cached, the generic-latest
\* files holding another image's variants before the call.
C9_Witness ==
    \E c \in Cli :
        /\ CachedCallOver(c)
        /\ \A e \in Effects :
            /\ Exists(snap[c], GenericFile(e))
            /\ snap[c][GenericFile(e)] # snap[c][CacheFile(e, img[c])]

Reloads == {<<"waybar">>, <<"mako">>}

PaletteOk == Ev("run", <<"wallust">>, TRUE)

\* C10: in a run of the theme propagator no reload is invoked before the
\* palette capability has completed successfully, none at all when the palette
\* is unavailable or fails, and all of them when it succeeds, even after a
\* failed reload.
C10_PaletteBeforeReloads ==
    \A p \in Procs :
        LET L == log[p]["theme"] IN
        /\ \A i \in 1..Len(L) :
              L[i].arg \in Reloads => \E j \in 1..(i - 1) : L[j] = PaletteOk
        /\ (\E ev \in Range(L) : ev.arg = <<"wallust">> /\ ~ev.ok) =>
              \A ev \in Range(L) : ev.arg \notin Reloads
        /\ (task[p]["theme"] = "done" /\ PaletteOk \in Range(L)) =>
              \A r \in Reloads : \E ev \in Range(L) : ev.arg = r /\ ev.op = "run"

\* C10's case: the palette succeeded, the first reload failed, the second one
\* was invoked all the same.
C10_Witness ==
    \E p \in Procs :
        /\ task[p]["theme"] = "done"
        /\ Did(p, "theme", Ev("run", <<"waybar">>, FALSE))
        /\ \E ev \in Range(log[p]["theme"]) : ev.arg = <<"mako">>


\* --- two derivations in a row (C8), under SpecDerive

\* The number of times a call ran the transformation tool.
MagickRuns(h) ==
    Cardinality({i \in 1..Len(h.log) :
                    h.log[i].op = "run" /\ h.log[i].arg = <<"magick">>})

\* A call that did nothing but copy the cached variant to the generic file.
IsHit(h) == h.log = <<Ev("write", GenericFile(h.effect), TRUE)>>

\* A call that ended with the variant in the cache: found there, or made
\* and stored.
EndedCached(h) ==
    \/ IsHit(h)
    \/ h.log[Len(h.log)] = Ev("write", CacheFile(h.effect, h.image), TRUE)

\* Two calls for the same (effect, image) have both returned.
TwoSameCalls ==
    /\ Len(hist) = 2
    /\ hist[2].done
    /\ hist[1].effect = hist[2].effect
    /\ hist[1].image = hist[2].image

\* C8 as stated: two consecutive calls of the derivation runner for the same
\* (effect, image) run the transformation tool at most once in total, and the
\* second call is a pure cache hit. The code runs it twice when the first
\* run fails or its result cannot be stored.
C8_SecondCallIsHit ==
    TwoSameCalls =>
        /\ MagickRuns(hist[1]) + MagickRuns(hist[2]) <= 1
        /\ IsHit(hist[2])

\* C8 amended: when the first of two consecutive calls for the same
\* (effect, image) ends with the variant in the cache, the two calls run the
\* transformation tool at most once in total and the second call is a pure
\* cache hit.
C8_SecondCallIsHitAfterSuccess ==
    (TwoSameCalls /\ EndedCached(hist[1])) =>
        /\ MagickRuns(hist[1]) + MagickRuns(hist[2]) <= 1
        /\ IsHit(hist[2])

\* The first call made and stored the variant, the second one has returned.
C8_Witness ==
    /\ TwoSameCalls
    /\ MagickRuns(hist[1]) = 1
    /\ EndedCached(hist[1])
    /\ IsHit(hist[2])


\* --- the automation loops (C3, C4, C5)

\* The loops whose process exists.
AliveLoops == {pid \in Pids : Alive(pid)}

\* A loop whose selection or application failed: it is about to remove the
\* record, is on its way out, or is gone.
Failed(pid) == pc[pid] \in {"loop_fail", "exit", "dead"}

\* The record names the process.
RecordIs(pid) == Exists(files, PID_FILE) /\ files[PID_FILE] = pid

\* The loop runs with the interval and category of the start call.
RunsAs(pid, h) ==
    /\ args[pid].interval = h.interval
    /\ args[pid].category = h.category

\* C3 as stated, at the return of the second of two sequential start calls:
\* exactly one loop is alive, it is the one the second call spawned, with
\* that call's interval and category, the first call's loop is not alive, and
\* the record holds the second loop's pid. In the code the second call dies
\* of an uncaught FileNotFoundError, spawning nothing, when the first loop
\* fails and removes the record between the call's exists() and read_text().
C3_SecondStartSupersedes ==
    [][(Len(hist) = 1 /\ Len(hist') = 2) =>
          (/\ AliveLoops = {hist[2].pid}
           /\ RunsAs(hist[2].pid, hist[2])
           /\ ~Alive(hist[1].pid)
           /\ RecordIs(hist[2].pid))']_vars

\* C4 as stated: in every reachable state at most one automation loop is
\* alive. The code starts a second loop beside a living one when the record
\* of the first was removed by clear-cache.
C4_AtMostOneLoopAlive == Cardinality(AliveLoops) <= 1

\* C5 as stated: a loop whose selection or application failed terminates,
\* never retries, and once it has terminated the record never names it,
\* however its steps interleave with those of the start call that spawned it.
\* The code writes the record after the loop has removed it.
C5_FailedLoopLeavesNoRecord ==
    /\ [](\A pid \in Pids : pc[pid] = "dead" => ~RecordIs(pid))
    /\ [][\A pid \in Pids : Failed(pid) => Failed(pid)']_vars


\* --- stop and stale records (C11, C12), under SpecRec

\* manage_automation of c is over (returned, or ended by an exception).
AutoOver(c) == pc[c] = "exit" /\ args[c].command = "auto"

\* The process the record named when c's run began (0 when there was none).
RecordedAtStart(c) ==
    IF Exists(snap[c], PID_FILE) THEN snap[c][PID_FILE] ELSE 0

\* c has sent SIGTERM to a process that existed.
Terminated(c) == Did(c, "main", Ev("kill", <<"SIGTERM">>, TRUE))

\* C11 as stated: once a stop (auto with interval 0) is over, the record is
\* absent, the process that was on record has been sent a termination request
\* if it was live, and no loop has been spawned. In the code a stop that finds
\* the record at exists() and no longer at read_text() dies of the
\* FileNotFoundError and leaves the recorded process alive, unsignalled.
C11_StopClearsAndTerminates ==
    \A c \in Cli :
        (AutoOver(c) /\ args[c].interval = 0) =>
            /\ ~Exists(files, PID_FILE)
            /\ newPid[c] = 0
            /\ RecordedAtStart(c) \in Pids =>
                  (Terminated(c) \/ ~Alive(RecordedAtStart(c)))


\* manage_automation of c has raised an exception that nothing caught.
Raised(c) == Did(c, "main", Ev("raise", PID_FILE, FALSE))

\* C12 as stated: a start or a stop that begins with a record naming a process
\* that is not live completes without raising an error and without terminating
\* any process; the stop leaves the record absent, the start removes the stale
\* record, then spawns a loop and records it. In the code the call dies of a
\* FileNotFoundError when a loop that is alive but not on record removes the
\* file between the call's exists() and its read_text().
C12_StaleRecordRecovered ==
    \A c \in Cli :
        (AutoOver(c) /\ Exists(snap[c], Stale)) =>
            /\ ~Raised(c)
            /\ ~Terminated(c)
            /\ args[c].interval = 0 => ~Exists(files, PID_FILE)
            /\ args[c].interval > 0 =>
                  /\ newPid[c] \in Pids
                  /\ RecordIs(newPid[c]) \/ Failed(newPid[c])


\* --- the recorded wallpaper over a session (C13), under SpecCur

\* The CLI run is over; a set whose display step succeeded is noted as the
\* most recent one.
ExitNoted(c) ==
    /\ ExitProcess(c)
    /\ hist' = IF args[c].command \in {"set", "shuffle"} /\ DisplayDone(c)
               THEN <<img[c]>>
               ELSE hist

\* A session of set, shuffle, color and restore: any tools, a fresh or a
\* left-over cache directory whose record counts as the most recent set.
InitCur ==
    /\ files \in {EmptyDir} \cup {Recorded(i) : i \in Images}
    /\ tools \in Envs
    /\ hist = Cur(files)
    /\ genDir = FALSE
    /\ displays = <<>>
    /\ pc = [p \in Procs |-> IF p \in Cli THEN "idle" ELSE "unborn"]
    /\ args = [p \in Procs |-> NoArgs]
    /\ img = [p \in Procs |-> NoImage]
    /\ setRes = [p \in Procs |-> "none"]
    /\ task = [p \in Procs |-> NoTasks]
    /\ log = [p \in Procs |-> NoLog]
    /\ oldPid = [p \in Cli |-> 0]
    /\ newPid = [p \in Cli |-> 0]
    /\ nextPid = 1
    /\ snap = [p \in Cli |-> EmptyDir]

\* set, shuffle, color and restore, run one after the other.
NextCur ==
    \E c \in Fg :
        \/ MainSet(c)
        \/ MainShuffle(c, {"anime", "empty", "nope"})
        \/ MainColor(c)
        \/ MainRestore(c)
        \/ SetStep(c)
        \/ TaskStep(c)
        \/ ExitNoted(c)

SpecCur == InitCur /\ [][NextCur]_vars

\* C13: between the operations of a sequence of set, shuffle, restore and
\* color, CurrentWallpaperState is the image of the most recent set whose
\* display step succeeded (unset if there was none); a restore, a color and a
\* failed set end with it as it was when they began.
C13_CurrentIsLastDisplayed ==
    \A c \in Fg :
        /\ pc[c] = "idle" => Cur(files) = hist
        /\ pc[c] = "exit" =>
              /\ Cur(snap[c]) = hist
              /\ Cur(files) = IF /\ args[c].command \in {"set", "shuffle"}
                                 /\ DisplayDone(c)
                              THEN <<img[c]>>
                              ELSE hist

\* C13's case: a set whose display step succeeded has replaced the record of
\* an earlier wallpaper.
C13_Witness ==
    \E c \in Fg :
        /\ pc[c] = "exit"
        /\ args[c].command = "set"
        /\ DisplayDone(c)
        /\ hist # <<>>
        /\ hist # <<img[c]>>
        /\ Cur(files) = <<img[c]>>


\* --- the files the tasks of one set write (C14), under Spec

\* The paths thread t of process p has written.
WrittenBy(p, t) == {ev.arg : ev \in {x \in Range(log[p][t]) : x.op = "write"}}

\* C14: within one set invocation no two of its tasks write the same path:
\* a derivation task writes only the generic-latest file of its effect and the
\* cache file of its (effect, basename), the theme task writes no file of the
\* cache directory.
C14_TasksWriteDisjointFiles ==
    \A p \in Procs :
        /\ \A t1, t2 \in Tasks :
              t1 # t2 => WrittenBy(p, t1) \cap WrittenBy(p, t2) = {}
        /\ \A e \in Effects :
              WrittenBy(p, e) \subseteq {GenericFile(e), CacheFile(e, img[p])}

\* C14's case: both derivation tasks of a set have transformed the image and
\* stored the result.
C14_Witness ==
    \E p \in Procs :
        /\ args[p].command = "set"
        /\ \A e \in Effects :
              /\ task[p][e] = "done"
              /\ WrittenBy(p, e) = {GenericFile(e), CacheFile(e, img[p])}


\* --- two images of one basename (C15), under SpecDerive

\* Two calls for the same effect and for different images of one basename
\* have both returned, the first one having transformed its image and stored
\* the result.
CollidingCalls ==
    /\ Len(hist) = 2
    /\ hist[2].done
    /\ hist[1].effect = hist[2].effect
    /\ hist[1].image # hist[2].image
    /\ hist[1].image.name = hist[2].image.name
    /\ MagickRuns(hist[1]) = 1
    /\ EndedCached(hist[1])

\* C15: after a successful derivation of an effect for an image, the
\* derivation of that effect for another image of the same basename is a cache
\* hit: it runs no transformation, raises no error and delivers the artifact
\* of the first image.
C15_SameBasenameSharesEntry ==
    CollidingCalls =>
        LET e == hist[1].effect IN
        /\ IsHit(hist[2])
        /\ CacheFile(e, hist[1].image) = CacheFile(e, hist[2].image)
        /\ Exists(files, GenericFile(e))
        /\ files[GenericFile(e)] = Art(e, hist[1].image)

\* C15's case: the second call was for the other image and left the first
\* image's artifact in the generic-latest file.
C15_Witness ==
    /\ CollidingCalls
    /\ IsHit(hist[2])
    /\ files[GenericFile(hist[2].effect)] # Art(hist[2].effect, hist[2].image)


\* --- the display processes (C16), under Spec

Pkill == Ev("run", <<"pkill", "swaybg">>, TRUE)

\* C16: every launch of the display tool directly follows a request to end
\* its running instances, so that at most one display process launched by the
\* tool is running, showing the image of the call that launched last; between
\* launches the display processes stay as they are.
C16_OneDisplayOfLastLaunch ==
    /\ [](/\ Len(displays) <= 1
          /\ \A p \in Procs :
                /\ DisplayDone(p) => displays = <<img[p]>>
                /\ \A i \in 1..Len(log[p]["main"]) :
                      log[p]["main"][i] = Ev("run", <<"swaybg">>, TRUE) =>
                          i > 1 /\ log[p]["main"][i - 1] = Pkill)
    /\ [][displays' # displays =>
              \E p \in Procs : /\ pc[p] \in {"launch_swaybg", "popen"}
                               /\ pc'[p] # pc[p]]_vars

\* C16's case: a restore has relaunched the display while an earlier set's
\* wallpaper was on record.
C16_Witness ==
    \E c \in Cli :
        /\ args[c].command = "restore"
        /\ DisplayDone(c)
        /\ Exists(files, CurrentFile)
        /\ displays = <<files[CurrentFile]>>


\* --- restore (C17), under Spec

\* The wallpaper on record in a directory, or the default one.
CurrentOf(fs) ==
    IF Exists(fs, CurrentFile) THEN fs[CurrentFile] ELSE DefaultWallpaper

\* C17: a restore only re-runs the display step on the current wallpaper: it
\* starts no task, invokes neither the palette, nor a reload, nor the
\* transformation capability, and leaves every file of the cache directory,
\* the recorded wallpaper included, as it was.
C17_RestoreOnlyDisplays ==
    \A c \in Cli :
        args[c].command = "restore" =>
            /\ img[c] = CurrentOf(snap[c])
            /\ files = snap[c]
            /\ \A t \in Tasks : task[c][t] = "none" /\ log[c][t] = <<>>
            /\ \A ev \in Range(log[c]["main"]) :
                  ev.arg \in {<<"swaybg">>, <<"pkill", "swaybg">>}
            /\ pc[c] = "exit" => Invoked(c, "main", "swaybg")

\* C17's case: a restore has relaunched the display of the recorded wallpaper
\* with its variants in the cache and in the generic-latest files.
C17_Witness ==
    \E c \in Cli :
        /\ args[c].command = "restore"
        /\ pc[c] = "exit"
        /\ DisplayDone(c)
        /\ Exists(files, CurrentFile)
        /\ \A e \in Effects :
              /\ Exists(files, GenericFile(e))
              /\ Exists(files, CacheFile(e, img[c]))


\* --- a manual set beside the automation loop (C18), under SpecRace

\* An automation loop has just been spawned over the category "anime" and is
\* on record; the display and the transformation tool work, the palette tool
\* is not installed.
InitRace ==
    /\ files = Put(EmptyDir, PID_FILE, 1)
    /\ tools = [t \in {"swaybg", "wallust", "magick", "waybar", "mako"} |->
                  IF t = "wallust" THEN "missing" ELSE "ok"]
    /\ pc = [p \in Procs |-> IF p \in Cli THEN "idle"
                              ELSE IF p = 1 THEN "main" ELSE "unborn"]
    /\ args = [p \in Procs |->
                 IF p = 1 THEN [command |-> "_loop", interval |-> 5,
                                category |-> "anime"]
                 ELSE NoArgs]
    /\ nextPid = 2
    /\ genDir = FALSE
    /\ displays = <<>>
    /\ img = [p \in Procs |-> NoImage]
    /\ setRes = [p \in Procs |-> "none"]
    /\ task = [p \in Procs |-> NoTasks]
    /\ log = [p \in Procs |-> NoLog]
    /\ oldPid = [p \in Cli |-> 0]
    /\ newPid = [p \in Cli |-> 0]
    /\ snap = [p \in Cli |-> EmptyDir]
    /\ hist = <<>>

\* The steps of the worker threads where the palette tool is not installed.
RaceTaskStep(p) ==
    \/ Wallust(p)
    \/ \E e \in Effects : CheckCache(p, e)
    \/ \E e \in Effects : CopyHit(p, e)
    \/ \E e \in Effects : Magick(p, e)
    \/ \E e \in Effects : Store(p, e)

\* The CLI run is over; its command is noted.
ExitCounted(c) ==
    /\ ExitProcess(c)
    /\ hist' = Append(hist, args[c].command)

\* One manual set beside the first iteration of the loop, up to the loop's
\* sleep.
NextRace ==
    \/ \E c \in Fg :
        \/ hist = <<>> /\ MainSet(c)
        \/ SetStep(c)
        \/ RaceTaskStep(c)
        \/ ExitCounted(c)
    \/ \E pid \in Pids :
        \/ LoopMain(pid)
        \/ LoopFail(pid)
        \/ SetStep(pid)
        \/ RaceTaskStep(pid)
        \/ Exit(pid)

SpecRace == InitRace /\ [][NextRace]_vars

\* C18 as stated: a cache entry for (effect, basename) holds an artifact
\* derived from an image of that basename, also when two sets for different
\* images run concurrently. In the code both write the effect's
\* generic-latest file and each then copies that file to its own entry.
C18_EntryMatchesBasename ==
    \A k \in DOMAIN files :
        k[1] = "generated" => Basename(files[k].src) = k[3]


\* --- clear-cache (C19), under SpecAuto

\* AutomationProcess as a directory holds it: absent, or one pid.
Rec(fs) == IF Exists(fs, PID_FILE) THEN <<fs[PID_FILE]>> ELSE <<>>

\* C19 as stated: clear-cache removes derived artifacts only; it leaves
\* CurrentWallpaperState and the AutomationProcess record as they were, so that
\* a live loop is still on record after it. The code removes the whole
\* CACHE_DIR, which holds both.
C19_ClearCacheKeepsRecords ==
    [][\A c \in Cli :
          (pc[c] = "idle" /\ args'[c].command = "clear-cache") =>
              /\ Cur(files') = Cur(files)
              /\ Rec(files') = Rec(files)]_vars


\* --- two starts at once (C20), under SpecOverlap

\* The CLI run is over; the loop it spawned is noted, and whether the other
\* terminal's run was under way.
ExitOverlap(c) ==
    /\ ExitProcess(c)
    /\ hist' = Append(hist, [pid |-> newPid[c],
                             overlapped |-> \E d \in Cli \ {c} : pc[d] # "idle"])

\* The CLI runs begun so far.
Begun == Len(hist) + Cardinality({c \in Cli : pc[c] # "idle"})

\* `auto 5 anime` from two terminals, at any time with respect to each other,
\* with the loops they spawn running concurrently.
NextOverlap ==
    \/ \E c \in Cli :
        \/ Begun < 2 /\ MainAuto(c, {5}, {"anime"})
        \/ AutoStep(c)
        \/ ExitOverlap(c)
    \/ \E pid \in Pids :
        \/ LoopStep(pid)
        \/ SetStep(pid)
        \/ BareTaskStep(pid)
        \/ Exit(pid)

SpecOverlap == InitAuto /\ [][NextOverlap]_vars

\* C20 as stated, at the return of the second of two start invocations that
\* overlapped: at most one automation loop is alive and the record names it.
\* In the code both invocations can pass the check of the record before
\* either has written it, and both loops live on.
C20_OverlappingStartsLeaveOneLoop ==
    [][(Len(hist) = 1 /\ Len(hist') = 2 /\ hist[1].overlapped) =>
          (/\ Cardinality(AliveLoops) <= 1
           /\ \A pid \in AliveLoops : RecordIs(pid))']_vars

====
